---- MODULE Spec2Model ----
(***************************************************************************)
(* The two command-line programs of cos_util:                              *)
(*   upload_to_cos.py     parse_args, main, upload_file_to_cos             *)
(*   list_cos_objects.py  main, list_cos_objects                           *)
(* Each run is one synchronous control flow.  The Storage Client           *)
(* (qcloud_cos) is an opaque collaborator: a call to put_object,           *)
(* upload_file or list_objects is a step that is in flight until the       *)
(* collaborator either returns or raises.                                  *)
(*                                                                         *)
(* Python strings that the code inspects character by character (the       *)
(* object key, the local path) are sequences of one-character strings.     *)
(* Strings that the code only tests for truthiness or passes on are TLA+   *)
(* strings.  Python's None is the value None for the latter and NoneStr    *)
(* for the former.  os.path is modelled as posixpath.                      *)
(*                                                                         *)
(* The file system is fixed for the duration of a run.  Client             *)
(* construction (CosConfig, CosS3Client) and open() of an existing regular *)
(* file are taken to complete; the failures modelled are the ones the      *)
(* programs distinguish: missing configuration, a local path that is not a *)
(* regular file, and an error raised by a collaborator operation.  The     *)
(* arguments the claims do not depend on (storage class, ACL, part size,   *)
(* thread count, MD5 flag, token) are left out of the recorded calls.      *)
(***************************************************************************)
EXTENDS Integers, Sequences, FiniteSets, TLC

VARIABLES
    flags,          \* value of --bucket/--region/--secret-id/--secret-key on the command line
    env,            \* COS_BUCKET_NAME, COS_REGION, COS_SECRET_ID, COS_SECRET_KEY
    local_path,     \* positional argument
    key,            \* --key
    content_type,   \* --content-type
    dry_run,        \* --dry-run
    fileKind,       \* what local_path references in the file system
    fileSize,       \* os.path.getsize(local_path) when it is a regular file
    args,           \* the Namespace parse_args builds (the four required fields)
    pc,             \* position of the control flow
    clientBuilt,    \* CosS3Client(config) has been constructed
    fileOpen,       \* the handle of open(local_path, "rb") is open
    opens,          \* number of open(local_path, "rb") calls made
    calls,          \* collaborator operations issued, in order
    raised,         \* exception class that reached main's handlers, or None
    exitCode,       \* process exit status, or -1 while running
    exitMsg,        \* fields named by "Missing required configuration: ..."
    planned_key,    \* key printed by the dry-run plan
    obj_key,        \* key returned by upload_file_to_cos and printed by main
    response,       \* outcome of list_objects
    objects         \* return value of list_cos_objects

vars == <<flags, env, local_path, key, content_type, dry_run, fileKind, fileSize,
          args, pc, clientBuilt, fileOpen, opens, calls, raised, exitCode,
          exitMsg, planned_key, obj_key, response, objects>>

(***************************************************************************)
(* Bounds of the model                                                     *)
(***************************************************************************)
MaxKeyLen == 3
SizeSpread == 2
MaxContents == 2

(***************************************************************************)
(* Python values                                                           *)
(***************************************************************************)
None == "<None>"
NoneStr == <<"<None>">>

Whitespace == {" ", "\t", "\n"}

SeqsUpTo(S, n) == UNION {[1..k -> S] : k \in 0..n}

\* bool(x) of an Optional[str]
Truthy(x) == x # None /\ x # ""

\* bool(s) of an Optional[str] held as a character sequence
TruthySeq(s) == s # NoneStr /\ s # <<>>

RECURSIVE LStrip(_)
LStrip(s) == IF s # <<>> /\ s[1] \in Whitespace THEN LStrip(Tail(s)) ELSE s

RECURSIVE RStrip(_)
RStrip(s) ==
    IF s # <<>> /\ s[Len(s)] \in Whitespace THEN RStrip(SubSeq(s, 1, Len(s) - 1)) ELSE s

\* str.strip()
Strip(s) == RStrip(LStrip(s))

\* str.rfind(c) + 1: the 1-based index of the last c, or 0
RFind(s, c) ==
    IF \E i \in 1..Len(s) : s[i] = c
    THEN CHOOSE i \in 1..Len(s) : s[i] = c /\ \A j \in (i + 1)..Len(s) : s[j] # c
    ELSE 0

\* os.path.basename
Basename(p) == SubSeq(p, RFind(p, "/") + 1, Len(p))

\* os.path.splitext(p)[1]: the extension starts at the last dot of the base
\* name, unless only dots precede it there
SplitExt(p) ==
    LET sep == RFind(p, "/")
        dot == RFind(p, ".")
    IN  IF dot > sep /\ \E i \in (sep + 1)..(dot - 1) : p[i] # "."
        THEN SubSeq(p, dot, Len(p))
        ELSE <<>>

\* mimetypes.guess_type(path)[0]
GuessType(p) ==
    LET ext == SplitExt(p)
    IN  IF ext = <<".", "z", "i", "p">> THEN "application/zip"
        ELSE IF ext = <<".", "t", "x", "t">> THEN "text/plain"
        ELSE None

(***************************************************************************)
(* Inputs                                                                  *)
(***************************************************************************)
Fields == {"bucket", "region", "secret_id", "secret_key"}
FieldOrder == <<"bucket", "region", "secret_id", "secret_key">>

FlagValues == {None, "", "flag-value"}
EnvValues == {None, "", "env-value"}

KeyChars == {" ", "k"}
KeyArgs == {NoneStr} \cup SeqsUpTo(KeyChars, MaxKeyLen)

ContentTypeArgs == {None, "", "image/png"}

Paths == {
    <<"a", ".", "z", "i", "p">>,
    <<"d", "/", "a", ".", "z", "i", "p">>,
    <<"d", "/", "n", ".", "x", "y", "z">>,
    <<"d", ".", "z", "i", "p", "/", "R">>,
    <<".", "z", "i", "p">>,
    <<"d", "/">> }

FileKinds == {"missing", "dir", "file"}

\* a path with a trailing separator never names a regular file
KindsOf(p) == IF p[Len(p)] = "/" THEN {"missing", "dir"} ELSE FileKinds

SMALL_FILE_THRESHOLD == 5 * 1024 * 1024

FileSizes ==
    {0} \cup ((SMALL_FILE_THRESHOLD - SizeSpread)..(SMALL_FILE_THRESHOLD + SizeSpread))

\* the exception classes the collaborator raises
CollaboratorErrors == {"CosClientError", "CosServiceError"}

ObjKeys == {"a.txt", "b/c.txt"}

NoResponse == [status |-> "none", hasContents |-> FALSE, Contents |-> <<>>]

Responses ==
    {[status |-> "ok", hasContents |-> FALSE, Contents |-> <<>>]}
    \cup {[status |-> "ok", hasContents |-> TRUE, Contents |-> c] :
            c \in SeqsUpTo([Key : ObjKeys], MaxContents)}

NoArgs == [f \in Fields |-> None]

(***************************************************************************)
(* upload_to_cos.py                                                        *)
(***************************************************************************)
\* argparse: add_argument("--bucket", default=os.getenv("COS_BUCKET_NAME"))
Effective(f) == IF flags[f] # None THEN flags[f] ELSE env[f]

MissingLabel == [f \in Fields |->
    CASE f = "bucket" -> "--bucket or COS_BUCKET_NAME"
      [] f = "region" -> "--region or COS_REGION"
      [] f = "secret_id" -> "--secret-id or COS_SECRET_ID"
      [] f = "secret_key" -> "--secret-key or COS_SECRET_KEY"]

RECURSIVE MissingFrom(_, _)
MissingFrom(a, i) ==
    IF i > Len(FieldOrder) THEN <<>>
    ELSE (IF ~Truthy(a[FieldOrder[i]]) THEN <<MissingLabel[FieldOrder[i]]>> ELSE <<>>)
         \o MissingFrom(a, i + 1)

\* a validation that reports the first missing field and stops
MissingFirstOnly(a) ==
    IF MissingFrom(a, 1) = <<>> THEN <<>> ELSE <<Head(MissingFrom(a, 1))>>

\* the list `missing` of parse_args
Missing(a) == MissingFrom(a, 1)

\* os.path.exists instead of os.path.isfile
IsFileOrDir(kind) == kind # "missing"

\* os.path.isfile
IsFile(kind) == kind = "file"

\* `if not key:` without the strip
ResolveKeyNoStrip(k, p) == IF ~TruthySeq(k) THEN Basename(p) ELSE k

\* if key is None or not key.strip(): key = os.path.basename(local_path)
ResolveKey(k, p) == IF k = NoneStr \/ ~TruthySeq(Strip(k)) THEN Basename(p) ELSE k

\* planned_key = args.key or os.path.basename(args.local_path)
PlannedKey(k, p) == IF TruthySeq(k) THEN k ELSE Basename(p)

\* extension inference taking precedence over the override
ResolveContentTypeGuessFirst(ct, p) ==
    IF Truthy(GuessType(p)) THEN GuessType(p)
    ELSE IF ct # None THEN ct ELSE "application/octet-stream"

\* if content_type is None: content_type = guessed_type or "application/octet-stream"
ResolveContentType(ct, p) ==
    IF ct = None
    THEN (IF Truthy(GuessType(p)) THEN GuessType(p) ELSE "application/octet-stream")
    ELSE ct

\* a strict comparison against the threshold
StrategyStrict(size) == IF size < SMALL_FILE_THRESHOLD THEN "put_object" ELSE "upload_file"

\* if file_size_bytes <= SMALL_FILE_THRESHOLD: put_object, else: upload_file
Strategy(size) == IF size <= SMALL_FILE_THRESHOLD THEN "put_object" ELSE "upload_file"

\* a handler chain that reports every exception as "not found"
ExitCodeAlwaysNotFound(exc) == 2

\* main: except FileNotFoundError -> 2, except Exception -> 1
ExitCodeFor(exc) == IF exc = "FileNotFoundError" THEN 2 ELSE 1

TypeOK ==
    /\ flags \in [Fields -> FlagValues]
    /\ env \in [Fields -> EnvValues]
    /\ local_path \in Paths
    /\ key \in KeyArgs
    /\ content_type \in ContentTypeArgs
    /\ dry_run \in BOOLEAN
    /\ fileKind \in FileKinds
    /\ fileSize \in FileSizes
    /\ pc \in {"parse_args", "main", "put_object", "upload_file", "exited",
               "lister_main", "list_objects"}
    /\ clientBuilt \in BOOLEAN
    /\ fileOpen \in BOOLEAN
    /\ opens \in 0..1
    /\ exitCode \in {-1, 0, 1, 2}

\* the state of a process about to run `at`, for given inputs
Start(at, fl, en, p, k, ct, dr, kind, size) ==
    /\ flags = fl
    /\ env = en
    /\ local_path = p
    /\ key = k
    /\ content_type = ct
    /\ dry_run = dr
    /\ fileKind = kind
    /\ fileSize = size
    /\ args = NoArgs
    /\ pc = at
    /\ clientBuilt = FALSE
    /\ fileOpen = FALSE
    /\ opens = 0
    /\ calls = <<>>
    /\ raised = None
    /\ exitCode = -1
    /\ exitMsg = <<>>
    /\ planned_key = NoneStr
    /\ obj_key = NoneStr
    /\ response = NoResponse
    /\ objects = NoneStr

AllFlags == [f \in Fields |-> "flag-value"]
AllEnv == [f \in Fields |-> "env-value"]

\* configurations of the runs that exercise the upload itself
ConfigSamples == {
    <<AllFlags, NoArgs>>,
    <<NoArgs, AllEnv>>,
    <<[AllFlags EXCEPT !["region"] = None], [AllEnv EXCEPT !["bucket"] = ""]>>,
    <<[AllFlags EXCEPT !["secret_key"] = ""], AllEnv>>,
    <<NoArgs, NoArgs>> }

\* uploader runs: every key, path, file and content type, sampled configuration
Init ==
    \E c \in ConfigSamples, p \in Paths, k \in KeyArgs, ct \in ContentTypeArgs,
       dr \in BOOLEAN :
        \E kind \in KindsOf(p) :
            \E size \in (IF kind = "file" THEN FileSizes ELSE {0}) :
                Start("parse_args", c[1], c[2], p, k, ct, dr, kind, size)

\* uploader runs: every configuration, sampled key, path and file
InitConfig ==
    \E fl \in [Fields -> FlagValues], en \in [Fields -> EnvValues], dr \in BOOLEAN,
       kind \in {"missing", "file"} :
        \E size \in (IF kind = "file"
                     THEN {SMALL_FILE_THRESHOLD, SMALL_FILE_THRESHOLD + 1} ELSE {0}) :
            Start("parse_args", fl, en, <<"a", ".", "z", "i", "p">>, NoneStr, None, dr, kind, size)

\* main's handlers and return: the process ends with exception class exc
Fail(exc) ==
    /\ raised' = exc
    /\ exitCode' = ExitCodeFor(exc)
    /\ pc' = "exited"

\* parse_args: merge flags with the environment, then list what is missing
ParseArgs ==
    /\ pc = "parse_args"
    /\ LET a == [f \in Fields |-> Effective(f)]
       IN  /\ args' = a
           /\ IF Missing(a) # <<>>
              THEN /\ exitMsg' = Missing(a)
                   /\ exitCode' = 1
                   /\ pc' = "exited"
              ELSE /\ pc' = "main"
                   /\ UNCHANGED <<exitMsg, exitCode>>
    /\ UNCHANGED <<flags, env, local_path, key, content_type, dry_run, fileKind,
                   fileSize, clientBuilt, fileOpen, opens, calls, raised,
                   planned_key, obj_key, response, objects>>

\* a dry run that refuses a path that is not a regular file
DryRunChecksFile ==
    /\ pc = "main"
    /\ dry_run
    /\ planned_key' = PlannedKey(key, local_path)
    /\ exitCode' = IF IsFile(fileKind) THEN 0 ELSE 2
    /\ pc' = "exited"
    /\ UNCHANGED <<flags, env, local_path, key, content_type, dry_run, fileKind,
                   fileSize, args, clientBuilt, fileOpen, opens, calls, raised,
                   exitMsg, obj_key, response, objects>>

\* main, args.dry_run: print the plan and return 0
DryRun ==
    /\ pc = "main"
    /\ dry_run
    /\ planned_key' = PlannedKey(key, local_path)
    /\ exitCode' = 0
    /\ pc' = "exited"
    /\ UNCHANGED <<flags, env, local_path, key, content_type, dry_run, fileKind,
                   fileSize, args, clientBuilt, fileOpen, opens, calls, raised,
                   exitMsg, obj_key, response, objects>>

\* upload_file_to_cos raises FileNotFoundError; main returns 2
UploadNotFound ==
    /\ pc = "main"
    /\ ~dry_run
    /\ ~IsFile(fileKind)
    /\ Fail("FileNotFoundError")
    /\ UNCHANGED <<flags, env, local_path, key, content_type, dry_run, fileKind,
                   fileSize, args, clientBuilt, fileOpen, opens, calls, exitMsg,
                   planned_key, obj_key, response, objects>>

\* upload_file_to_cos up to the collaborator call: resolve key and content
\* type, build the client, read the size, and issue put_object (with the
\* file open) or upload_file
UploadStart ==
    /\ pc = "main"
    /\ ~dry_run
    /\ IsFile(fileKind)
    /\ clientBuilt' = TRUE
    /\ LET k == ResolveKey(key, local_path)
           ct == ResolveContentType(content_type, local_path)
       IN  IF Strategy(fileSize) = "put_object"
           THEN /\ fileOpen' = TRUE
                /\ opens' = opens + 1
                /\ calls' = Append(calls, [op |-> "put_object", Bucket |-> args["bucket"],
                                           Key |-> k, ContentType |-> ct])
                /\ pc' = "put_object"
           ELSE /\ calls' = Append(calls, [op |-> "upload_file", Bucket |-> args["bucket"],
                                           Key |-> k, ContentType |-> None])
                /\ pc' = "upload_file"
                /\ UNCHANGED <<fileOpen, opens>>
    /\ UNCHANGED <<flags, env, local_path, key, content_type, dry_run, fileKind,
                   fileSize, args, raised, exitCode, exitMsg, planned_key, obj_key,
                   response, objects>>

\* put_object returns: the with block closes the file, the key is returned
PutObjectReturn ==
    /\ pc = "put_object"
    /\ fileOpen' = FALSE
    /\ obj_key' = calls[Len(calls)].Key
    /\ exitCode' = 0
    /\ pc' = "exited"
    /\ UNCHANGED <<flags, env, local_path, key, content_type, dry_run, fileKind,
                   fileSize, args, clientBuilt, opens, calls, raised, exitMsg,
                   planned_key, response, objects>>

\* an upload whose file is closed only on the success path
PutObjectRaiseLeak ==
    /\ pc = "put_object"
    /\ \E e \in CollaboratorErrors : Fail(e)
    /\ UNCHANGED <<flags, env, local_path, key, content_type, dry_run, fileKind,
                   fileSize, args, clientBuilt, fileOpen, opens, calls, exitMsg,
                   planned_key, obj_key, response, objects>>

\* put_object raises: the with block closes the file, main returns 1
PutObjectRaise ==
    /\ pc = "put_object"
    /\ fileOpen' = FALSE
    /\ \E e \in CollaboratorErrors : Fail(e)
    /\ UNCHANGED <<flags, env, local_path, key, content_type, dry_run, fileKind,
                   fileSize, args, clientBuilt, opens, calls, exitMsg,
                   planned_key, obj_key, response, objects>>

\* upload_file returns: the key is returned
UploadFileReturn ==
    /\ pc = "upload_file"
    /\ obj_key' = calls[Len(calls)].Key
    /\ exitCode' = 0
    /\ pc' = "exited"
    /\ UNCHANGED <<flags, env, local_path, key, content_type, dry_run, fileKind,
                   fileSize, args, clientBuilt, fileOpen, opens, calls, raised,
                   exitMsg, planned_key, response, objects>>

\* upload_file raises: main returns 1
UploadFileRaise ==
    /\ pc = "upload_file"
    /\ \E e \in CollaboratorErrors : Fail(e)
    /\ UNCHANGED <<flags, env, local_path, key, content_type, dry_run, fileKind,
                   fileSize, args, clientBuilt, fileOpen, opens, calls, exitMsg,
                   planned_key, obj_key, response, objects>>

(***************************************************************************)
(* list_cos_objects.py                                                     *)
(***************************************************************************)
\* os.getenv(name, default) with the fallback embedded in main
GetenvDefault(f) == IF env[f] # None THEN env[f] ELSE "built-in-default"

\* objects.append(obj['Key']) for each entry of response['Contents'], if present
ExtractKeys(r) ==
    IF r.hasContents THEN [i \in 1..Len(r.Contents) |-> r.Contents[i].Key] ELSE <<>>

\* `if objects:` in place of `if objects is not None:`
ListerExitTruthy(objs) == IF objs # NoneStr /\ objs # <<>> THEN 0 ELSE 1

\* main: return 0 if objects is not None else 1
ListerExit(objs) == IF objs # NoneStr THEN 0 ELSE 1

\* lister runs: every environment
InitList ==
    \E en \in [Fields -> EnvValues] :
        Start("lister_main", NoArgs, en, <<"d", "/">>, NoneStr, None, FALSE, "missing", 0)

\* main reads the environment; list_cos_objects builds the client and
\* issues the one list_objects call
ListStart ==
    /\ pc = "lister_main"
    /\ args' = [f \in Fields |-> GetenvDefault(f)]
    /\ clientBuilt' = TRUE
    /\ calls' = Append(calls, [op |-> "list_objects", Bucket |-> GetenvDefault("bucket"),
                               Prefix |-> "", Delimiter |-> "", MaxKeys |-> 1000])
    /\ pc' = "list_objects"
    /\ UNCHANGED <<flags, env, local_path, key, content_type, dry_run, fileKind,
                   fileSize, fileOpen, opens, raised, exitCode, exitMsg,
                   planned_key, obj_key, response, objects>>

\* list_objects returns: the keys are collected, main reports success
ListReturn ==
    /\ pc = "list_objects"
    /\ \E r \in Responses :
        /\ response' = r
        /\ objects' = ExtractKeys(r)
        /\ exitCode' = ListerExit(ExtractKeys(r))
    /\ pc' = "exited"
    /\ UNCHANGED <<flags, env, local_path, key, content_type, dry_run, fileKind,
                   fileSize, args, clientBuilt, fileOpen, opens, calls, raised,
                   exitMsg, planned_key, obj_key>>

\* list_objects raises: list_cos_objects returns None, main reports failure
ListRaise ==
    /\ pc = "list_objects"
    /\ \E e \in CollaboratorErrors : raised' = e
    /\ response' = [status |-> "raised", hasContents |-> FALSE, Contents |-> <<>>]
    /\ objects' = NoneStr
    /\ exitCode' = ListerExit(NoneStr)
    /\ pc' = "exited"
    /\ UNCHANGED <<flags, env, local_path, key, content_type, dry_run, fileKind,
                   fileSize, args, clientBuilt, fileOpen, opens, calls, exitMsg,
                   planned_key, obj_key>>

NextList ==
    \/ ListStart
    \/ ListReturn
    \/ ListRaise

Next ==
    \/ ParseArgs
    \/ DryRun
    \/ UploadNotFound
    \/ UploadStart
    \/ PutObjectReturn
    \/ PutObjectRaise
    \/ UploadFileReturn
    \/ UploadFileRaise

Spec == Init /\ [][Next]_vars

SpecConfig == InitConfig /\ [][Next]_vars

SpecList == InitList /\ [][NextList]_vars

(***************************************************************************)
(* Properties                                                              *)
(***************************************************************************)
Range(s) == {s[i] : i \in 1..Len(s)}

\* every required field has a non-empty effective value
ConfigValid == \A f \in Fields : Truthy(Effective(f))

\* upload_file_to_cos has been entered
InUpload == pc \in {"put_object", "upload_file", "exited"} /\ ~dry_run /\ ConfigValid

\* C1: for an existing regular file exactly one collaborator upload operation
\* is invoked, put_object when the size is at most 5*1024*1024 bytes and
\* upload_file when it is larger; exactly 5 MiB goes to put_object, one byte
\* more to upload_file.
C1_StrategyBySizeAlone ==
    /\ Len(calls) <= 1
    /\ (InUpload /\ fileKind = "file") =>
          /\ Len(calls) = 1
          /\ calls[1].op = (IF fileSize <= 5 * 1024 * 1024 THEN "put_object" ELSE "upload_file")
          /\ (fileSize = 5242880 => calls[1].op = "put_object")
          /\ (fileSize = 5242881 => calls[1].op = "upload_file")

C1_Witness ==
    /\ pc = "exited"
    /\ InUpload
    /\ fileKind = "file"
    /\ fileSize = 5242880
    /\ Len(calls) = 1
    /\ calls[1].op = "put_object"

\* C2: when local_path is not an existing regular file, a non-dry-run
\* invocation with valid configuration ends with exit code 2 and performs no
\* Storage Client operation: no client construction, put_object or upload_file.
C2_NotFoundExitsTwo ==
    (~dry_run /\ ConfigValid /\ fileKind # "file") =>
        /\ ~clientBuilt
        /\ calls = <<>>
        /\ pc \in {"parse_args", "main", "exited"}
        /\ (pc = "main" => ENABLED UploadNotFound /\ ~ENABLED UploadStart)
        /\ (pc = "exited" => exitCode = 2 /\ raised = "FileNotFoundError")

C2_Witness ==
    /\ pc = "exited"
    /\ ~dry_run
    /\ ConfigValid
    /\ fileKind = "dir"
    /\ exitCode = 2

\* C3: with all four required fields present, --dry-run never constructs a
\* client, never invokes put_object or upload_file, and exits 0.
C3_DryRunNoCollaborator ==
    (dry_run /\ ConfigValid) =>
        /\ ~clientBuilt
        /\ calls = <<>>
        /\ pc \in {"parse_args", "main", "exited"}
        /\ (pc = "main" => ENABLED DryRun /\ ~ENABLED UploadStart /\ ~ENABLED UploadNotFound)
        /\ (pc = "exited" => exitCode = 0)

C3_Witness ==
    /\ pc = "exited"
    /\ dry_run
    /\ ConfigValid
    /\ fileKind = "missing"
    /\ exitCode = 0
    /\ calls = <<>>

\* the key the specification asks for: the base name for an absent, empty or
\* whitespace-only --key, the given key otherwise
ExpectedKey ==
    IF key = NoneStr \/ \A i \in 1..Len(key) : key[i] \in Whitespace
    THEN Basename(local_path)
    ELSE key

\* C4: the key passed to the collaborator and returned by upload_file_to_cos
\* is the base name of local_path when --key is absent, empty or
\* whitespace-only, and the given key verbatim otherwise.
C4_KeyResolution ==
    InUpload =>
        /\ \A i \in 1..Len(calls) : calls[i].Key = ExpectedKey
        /\ (pc = "exited" /\ exitCode = 0 => obj_key = ExpectedKey)

C4_Witness ==
    /\ pc = "exited"
    /\ InUpload
    /\ exitCode = 0
    /\ key = <<" ", " ">>
    /\ local_path = <<"d", "/", "a", ".", "z", "i", "p">>
    /\ obj_key = <<"a", ".", "z", "i", "p">>
    /\ calls[1].Key = <<"a", ".", "z", "i", "p">>

\* fields for which neither the flag nor the environment variable gives a
\* non-empty value
NeitherGives == {f \in Fields : ~Truthy(flags[f]) /\ ~Truthy(env[f])}

\* fields whose effective value (the flag when given, else the environment
\* variable) is absent or empty
EffectiveMissing == {f \in Fields : ~Truthy(Effective(f))}

Labels(S) == {MissingLabel[f] : f \in S}

\* C5 as stated: whenever some field has neither a non-empty flag nor a
\* non-empty environment variable, the process ends with one non-zero failure
\* naming exactly those fields, before any Storage Client call.
C5_NeitherGivesNamed ==
    (pc # "parse_args" /\ NeitherGives # {}) =>
        /\ pc = "exited"
        /\ exitCode \notin {-1, 0}
        /\ Range(exitMsg) = Labels(NeitherGives)
        /\ Len(exitMsg) = Cardinality(NeitherGives)
        /\ ~clientBuilt
        /\ calls = <<>>

\* C5 amended: whenever some field's effective value (the flag's value when
\* the flag is given, even if empty, otherwise the environment variable's) is
\* absent or empty, the process ends with one non-zero failure naming exactly
\* those fields, each once, before any Storage Client call, also under
\* --dry-run; with no such field parse_args reports nothing.
C5_AllMissingNamed ==
    /\ (pc # "parse_args" /\ EffectiveMissing # {}) =>
          /\ pc = "exited"
          /\ exitCode \notin {-1, 0}
          /\ Range(exitMsg) = Labels(EffectiveMissing)
          /\ Len(exitMsg) = Cardinality(EffectiveMissing)
          /\ ~clientBuilt
          /\ calls = <<>>
    /\ (EffectiveMissing = {} => exitMsg = <<>>)

C5_Witness ==
    /\ pc = "exited"
    /\ dry_run
    /\ flags["bucket"] = ""
    /\ env["bucket"] = "env-value"
    /\ EffectiveMissing = {"bucket", "secret_key"}
    /\ exitMsg = <<"--bucket or COS_BUCKET_NAME", "--secret-key or COS_SECRET_KEY">>
    /\ exitCode = 1

ExpectedContentType ==
    IF content_type # None THEN content_type
    ELSE IF GuessType(local_path) # None THEN GuessType(local_path)
    ELSE "application/octet-stream"

\* C7: the ContentType passed to put_object is the explicit override when one
\* is given, else the type inferred from the extension, else
\* "application/octet-stream"; a .zip file without override gets the ZIP type
\* and an unrecognised extension the fallback.
C7_ContentTypeOrder ==
    \A i \in 1..Len(calls) :
        calls[i].op = "put_object" =>
            /\ calls[i].ContentType = ExpectedContentType
            /\ (content_type # None => calls[i].ContentType = content_type)
            /\ (content_type = None /\ local_path = <<"d", "/", "a", ".", "z", "i", "p">>
                    => calls[i].ContentType = "application/zip")
            /\ (content_type = None /\ local_path = <<"d", "/", "n", ".", "x", "y", "z">>
                    => calls[i].ContentType = "application/octet-stream")

C7_Witness ==
    /\ pc = "exited"
    /\ Len(calls) = 1
    /\ calls[1].op = "put_object"
    /\ content_type = "image/png"
    /\ local_path = <<"a", ".", "z", "i", "p">>
    /\ calls[1].ContentType = "image/png"

C9_HandleScoped ==
    /\ (fileOpen <=> pc = "put_object")
    /\ (pc = "exited" => ~fileOpen)
    /\ opens <= 1
    /\ (opens = 1 <=> (Len(calls) = 1 /\ calls[1].op = "put_object"))

C9_Witness ==
    /\ pc = "exited"
    /\ opens = 1
    /\ raised \in CollaboratorErrors
    /\ ~fileOpen

\* C10: the key printed by a dry run equals the key upload_file_to_cos would
\* resolve and send for the same --key and local_path.
C10_DryRunKeyMatchesUpload ==
    (pc = "exited" /\ dry_run /\ exitCode = 0) =>
        planned_key = ResolveKey(key, local_path)

====
